---- MODULE Spec2Model ----
(***************************************************************************)
(* Model of fleet_tracker.py: the FleetTracker coordinator over its four   *)
(* SQLite tables (assets, locations, geofences, geofence_events), the      *)
(* module-wide _LOCK, and callers running register_asset, add_geofence and *)
(* update_location on concurrent threads, with detect_idle as a reader.    *)
(*                                                                         *)
(* Units.  Latitudes, longitudes and headings are integers in 1e-4 degree, *)
(* distances and radii are integers in 1e-4 km (the precision of the       *)
(* round(x, 4) the code applies to the distances it reports), speeds are   *)
(* km/h and timestamps are readings of one wall clock (now) that counts    *)
(* half hours.                                                             *)
(***************************************************************************)
EXTENDS Integers, Sequences, FiniteSets, TLC

\* ---------------------------------------------------------------- bounds
\* calls started, per operation; register_asset and add_geofence together
MaxUpdates == 2
MaxRegisters == 2
MaxGeofenceOps == 2
MaxSetupCalls == 3
\* last reading of the clock
MaxClock == 1
\* samples in a history the read-only queries are run on
MaxSamples == 3

\* ------------------------------------------------------ program constants
MinLat == -900000
MaxLat == 900000
MinLon == -1800000
MaxLon == 1800000
DefaultAccuracy == 10
\* detect_idle: threshold_minutes=30, i.e. 1 half hour, gives a history
\* window of threshold_minutes / 60 + 1 hours, i.e. 3 half hours
threshold_minutes == 1
HistoryWindow == 3
\* IDLE_MOVEMENT_THRESHOLD_KM = 0.1
IDLE_MOVEMENT_THRESHOLD_KM == 1000

\* ------------------------------------------------------------ input sets
Threads == {"t1", "t2"}
\* a thread that calls the read-only detect_idle
Readers == {"r1"}
Procs == Threads \cup Readers
AssetIds == {"v1", "v2"}
\* the operations each thread calls: t1 is a general caller, t2 an ingest
\* worker that only submits locations
Calls(t) ==
    IF t = "t1" THEN {"register_asset", "add_geofence", "update_location"}
    ELSE {"update_location"}
\* register_asset(Asset(id, "Van", "vehicle", lat, lon)): <<id, lat, lon>>
RegisterInputs ==
    {<<"v1", 407128, -740060>>, <<"v1", 407133, -740060>>,
     <<"v2", 407128, -740060>>}
\* add_geofence(Geofence(id, "Depot", center_lat, center_lon, radius_km,
\* active=...)): <<id, center_lat, center_lon, radius_km>>, active in BOOLEAN
GeofenceInputs ==
    {<<"gf1", 407128, -740060, 500>>, <<"gf2", 407133, -740060, 300>>}
\* update_location(asset_id, lat, lon, speed_kmh=30, heading_deg=...):
\* <<asset_id, lat, lon, heading_deg>>
UpdateInputs ==
    {<<"v1", 407128, -740060, 0>>, <<"v1", 407128, -740055, 900000>>,
     <<"v1", 407133, -740060, 0>>,
     <<"v2", 407128, -740060, 0>>,
     <<"v1", 950000, -740060, 0>>, <<"v1", 407128, -1800001, 0>>}
SpeedInputs == {30}
\* positions of the assets and samples the queries are run on: the points
\* the updates use and one 5 km to the north
QueryPoints ==
    {<<407128, -740060>>, <<407128, -740055>>, <<407133, -740060>>,
     <<407578, -740060>>}
\* get_assets_near(lat, lon, radius_km): <<lat, lon, radius_km>>
NearInputs ==
    {<<407128, -740060, 0>>, <<407128, -740060, 500>>,
     <<407128, -740060, 1000>>, <<407128, -740055, 500>>}
\* calc_trip_distance(asset_id, hours): hours
TripHours == {1, 24}
\* calc_distance(lat1, lon1, lat2, lon2): the points <<lat, lon>> of both
\* arguments - the points above, those of the tests (10, 20) and
\* (40.7614, -73.9776), and the antipodes (-58.7939, 130.2603) and
\* (58.7939, -49.7397)
MathPoints ==
    {<<407128, -740060>>, <<407128, -740055>>, <<407133, -740060>>,
     <<407133, -740055>>, <<407578, -740060>>, <<100000, 200000>>,
     <<407614, -739776>>, <<-587939, 1302603>>, <<587939, -497397>>}

\* ---------------------------------------------------------- core math
\* calc_distance and calc_bearing on the points that the inputs use, those
\* around (40.7128, -74.0060) and, for calc_distance, the farther ones of
\* MathPoints: each entry is the value the haversine / initial-bearing
\* formula of the source returns for <<lat1, lon1, lat2, lon2>>, in the
\* model's unit (1e-4 km, 1e-4 degree).
DistanceTable ==
    <<407128, -740060, 407128, -740060>> :> 0 @@
    <<407128, -740060, 407128, -740055>> :> 421 @@
    <<407128, -740060, 407133, -740060>> :> 556 @@
    <<407128, -740060, 407133, -740055>> :> 698 @@
    <<407128, -740055, 407128, -740060>> :> 421 @@
    <<407128, -740055, 407128, -740055>> :> 0 @@
    <<407128, -740055, 407133, -740060>> :> 698 @@
    <<407128, -740055, 407133, -740055>> :> 556 @@
    <<407133, -740060, 407128, -740060>> :> 556 @@
    <<407133, -740060, 407128, -740055>> :> 698 @@
    <<407133, -740060, 407133, -740060>> :> 0 @@
    <<407133, -740060, 407133, -740055>> :> 421 @@
    <<407133, -740055, 407128, -740060>> :> 698 @@
    <<407133, -740055, 407128, -740055>> :> 556 @@
    <<407133, -740055, 407133, -740060>> :> 421 @@
    <<407133, -740055, 407133, -740055>> :> 0 @@
    <<407128, -740060, 407578, -740060>> :> 50038 @@
    <<407128, -740055, 407578, -740060>> :> 50039 @@
    <<407133, -740060, 407578, -740060>> :> 49482 @@
    <<407133, -740055, 407578, -740060>> :> 49484 @@
    <<407578, -740060, 407128, -740060>> :> 50038 @@
    <<407578, -740060, 407128, -740055>> :> 50039 @@
    <<407578, -740060, 407133, -740060>> :> 49482 @@
    <<407578, -740060, 407133, -740055>> :> 49484 @@
    <<407578, -740060, 407578, -740060>> :> 0 @@
    <<407128, -740060, 100000, 200000>> :> 96179319 @@
    <<407128, -740060, 407614, -739776>> :> 59101 @@
    <<407128, -740060, -587939, 1302603>> :> 173838306 @@
    <<407128, -740060, 587939, -497397>> :> 26312562 @@
    <<407128, -740055, 100000, 200000>> :> 96178904 @@
    <<407128, -740055, 407614, -739776>> :> 58932 @@
    <<407128, -740055, -587939, 1302603>> :> 173838529 @@
    <<407128, -740055, 587939, -497397>> :> 26312339 @@
    <<407133, -740060, 100000, 200000>> :> 96179220 @@
    <<407133, -740060, 407614, -739776>> :> 58593 @@
    <<407133, -740060, -587939, 1302603>> :> 173838777 @@
    <<407133, -740060, 587939, -497397>> :> 26312091 @@
    <<407133, -740055, 100000, 200000>> :> 96178805 @@
    <<407133, -740055, 407614, -739776>> :> 58422 @@
    <<407133, -740055, -587939, 1302603>> :> 173839001 @@
    <<407133, -740055, 587939, -497397>> :> 26311867 @@
    <<407578, -740060, 100000, 200000>> :> 96170472 @@
    <<407578, -740060, 407614, -739776>> :> 24253 @@
    <<407578, -740060, -587939, 1302603>> :> 173880708 @@
    <<407578, -740060, 587939, -497397>> :> 26270159 @@
    <<100000, 200000, 407128, -740060>> :> 96179319 @@
    <<100000, 200000, 407128, -740055>> :> 96178904 @@
    <<100000, 200000, 407133, -740060>> :> 96179220 @@
    <<100000, 200000, 407133, -740055>> :> 96178805 @@
    <<100000, 200000, 407578, -740060>> :> 96170472 @@
    <<100000, 200000, 100000, 200000>> :> 0 @@
    <<100000, 200000, 407614, -739776>> :> 96146221 @@
    <<100000, 200000, -587939, 1302603>> :> 121178609 @@
    <<100000, 200000, 587939, -497397>> :> 78972259 @@
    <<407614, -739776, 407128, -740060>> :> 59101 @@
    <<407614, -739776, 407128, -740055>> :> 58932 @@
    <<407614, -739776, 407133, -740060>> :> 58593 @@
    <<407614, -739776, 407133, -740055>> :> 58422 @@
    <<407614, -739776, 407578, -740060>> :> 24253 @@
    <<407614, -739776, 100000, 200000>> :> 96146221 @@
    <<407614, -739776, 407614, -739776>> :> 0 @@
    <<407614, -739776, -587939, 1302603>> :> 173896806 @@
    <<407614, -739776, 587939, -497397>> :> 26254062 @@
    <<-587939, 1302603, 407128, -740060>> :> 173838306 @@
    <<-587939, 1302603, 407128, -740055>> :> 173838529 @@
    <<-587939, 1302603, 407133, -740060>> :> 173838777 @@
    <<-587939, 1302603, 407133, -740055>> :> 173839001 @@
    <<-587939, 1302603, 407578, -740060>> :> 173880708 @@
    <<-587939, 1302603, 100000, 200000>> :> 121178609 @@
    <<-587939, 1302603, 407614, -739776>> :> 173896806 @@
    <<-587939, 1302603, -587939, 1302603>> :> 0 @@
    <<587939, -497397, 407128, -740060>> :> 26312562 @@
    <<587939, -497397, 407128, -740055>> :> 26312339 @@
    <<587939, -497397, 407133, -740060>> :> 26312091 @@
    <<587939, -497397, 407133, -740055>> :> 26311867 @@
    <<587939, -497397, 407578, -740060>> :> 26270159 @@
    <<587939, -497397, 100000, 200000>> :> 78972259 @@
    <<587939, -497397, 407614, -739776>> :> 26254062 @@
    <<587939, -497397, 587939, -497397>> :> 0

\* the arguments on which calc_distance raises ValueError: a of lines 156-157
\* rounds to 1.0000000000000002 and math.sqrt(1 - a) at line 158 is given a
\* negative number
MathDomainErrors ==
    {<<-587939, 1302603, 587939, -497397>>,
     <<587939, -497397, -587939, 1302603>>}

BearingTable ==
    <<407128, -740060, 407128, -740060>> :> 0 @@
    <<407128, -740060, 407128, -740055>> :> 899998 @@
    <<407128, -740060, 407133, -740060>> :> 0 @@
    <<407128, -740060, 407133, -740055>> :> 371614 @@
    <<407128, -740055, 407128, -740060>> :> 2700002 @@
    <<407128, -740055, 407128, -740055>> :> 0 @@
    <<407128, -740055, 407133, -740060>> :> 3228386 @@
    <<407128, -740055, 407133, -740055>> :> 0 @@
    <<407133, -740060, 407128, -740060>> :> 1800000 @@
    <<407133, -740060, 407128, -740055>> :> 1428382 @@
    <<407133, -740060, 407133, -740060>> :> 0 @@
    <<407133, -740060, 407133, -740055>> :> 899998 @@
    <<407133, -740055, 407128, -740060>> :> 2171618 @@
    <<407133, -740055, 407128, -740055>> :> 1800000 @@
    <<407133, -740055, 407133, -740060>> :> 2700002 @@
    <<407133, -740055, 407133, -740055>> :> 0

calc_distance(lat1, lon1, lat2, lon2) == DistanceTable[<<lat1, lon1, lat2, lon2>>]

calc_bearing(lat1, lon1, lat2, lon2) == BearingTable[<<lat1, lon1, lat2, lon2>>]

\* ---------------------------------------------------------------- state
VARIABLES
    assets,            \* table assets, rows in rowid order
    locations,         \* table locations, rows in rowid (insertion) order
    geofences,         \* table geofences, rows in rowid order
    geofence_events,   \* table geofence_events, rows in rowid order
    lock,              \* holder of _LOCK, or NoThread
    now,               \* the wall clock read by datetime.utcnow()
    pc,                \* per thread: the statement it is about to execute
    frame,             \* per thread: the arguments and locals of its call
    hist,              \* history per asset id: the position it was last
                       \* registered at, whether a sample was committed since,
                       \* and whether its run of updates was disturbed
    calls              \* number of calls started, per operation

vars == <<assets, locations, geofences, geofence_events, lock, now, pc, frame,
          hist, calls>>

NoThread == "none"

\* datetime.utcnow(): the clock has not advanced since the previous reading,
\* or it has
ClockReadings == {ts \in {now, now + 1} : ts <= MaxClock}

\* ------------------------------------------------------------ dataclasses
Asset(id, lat, lon, ts) ==
    [id |-> id, name |-> "Van", type |-> "vehicle",
     location_lat |-> lat, location_lon |-> lon, status |-> "active",
     last_seen |-> ts, speed_kmh |-> 0, heading_deg |-> 0,
     metadata |-> "{}", created_at |-> ts]

LocationPoint(asset_id, lat, lon, speed_kmh, heading_deg, ts) ==
    [asset_id |-> asset_id, lat |-> lat, lon |-> lon, speed_kmh |-> speed_kmh,
     heading_deg |-> heading_deg, accuracy_m |-> DefaultAccuracy,
     timestamp |-> ts, source |-> "gps"]

Geofence(id, center_lat, center_lon, radius_km, active) ==
    [id |-> id, name |-> "Depot", center_lat |-> center_lat,
     center_lon |-> center_lon, radius_km |-> radius_km, type |-> "circle",
     active |-> active, created_at |-> 0]

GeofenceEvent(asset_id, geofence_id, event_type, lat, lon, ts) ==
    [asset_id |-> asset_id, geofence_id |-> geofence_id,
     event_type |-> event_type, lat |-> lat, lon |-> lon, timestamp |-> ts]

\* --------------------------------------------------------------- storage
\* a variant, INSERT OR IGNORE: a row whose primary key exists is kept
InsertOrIgnore(table, row) ==
    IF \E i \in DOMAIN table : table[i].id = row.id
    THEN table
    ELSE Append(table, row)

\* INSERT OR REPLACE: the row with the same primary key is deleted and the
\* new row is inserted with a fresh rowid, i.e. at the end of the table.
InsertOrReplace(table, row) ==
    Append(SelectSeq(table, LAMBDA r : r.id # row.id), row)

\* a variant that answers a lookup of an unknown id with a default record
GetAssetOrDefault(table, asset_id) ==
    IF \A i \in DOMAIN table : table[i].id # asset_id
    THEN <<Asset(asset_id, 407128, -740060, 0)>>
    ELSE SelectSeq(table, LAMBDA r : r.id = asset_id)

\* SELECT * FROM assets WHERE id=? ... fetchone(): <<>> stands for None.
GetAsset(table, asset_id) ==
    SelectSeq(table, LAMBDA r : r.id = asset_id)

\* a variant whose UPDATE leaves the stored position as it was
UpdateAssetRowStale(table, asset_id, lat, lon, speed_kmh, heading_deg, ts) ==
    [i \in DOMAIN table |->
        IF table[i].id = asset_id
        THEN [table[i] EXCEPT !.speed_kmh = speed_kmh,
                              !.heading_deg = heading_deg, !.last_seen = ts]
        ELSE table[i]]

\* UPDATE assets SET location_lat, location_lon, speed_kmh, heading_deg,
\* last_seen WHERE id=?
UpdateAssetRow(table, asset_id, lat, lon, speed_kmh, heading_deg, ts) ==
    [i \in DOMAIN table |->
        IF table[i].id = asset_id
        THEN [table[i] EXCEPT !.location_lat = lat, !.location_lon = lon,
                              !.speed_kmh = speed_kmh,
                              !.heading_deg = heading_deg, !.last_seen = ts]
        ELSE table[i]]

\* a variant whose INSERT is lost: the table stays as it was
InsertNothing(table, point) == table

\* INSERT INTO locations (...)
InsertLocation(table, point) == Append(table, point)

\* a variant without the WHERE clause
SelectAllFences(table) == table

\* SELECT * FROM geofences WHERE active=1
SelectActiveFences(table) == SelectSeq(table, LAMBDA f : f.active)

\* --------------------------------------------------------- update_location
ValidLat(lat) == MinLat <= lat /\ lat <= MaxLat

\* a variant that accepts every longitude
ValidLonAny(lon) == TRUE

ValidLon(lon) == MinLon <= lon /\ lon <= MaxLon

\* a variant that takes the bearing from the new position back to the old
ComputeHeadingReversed(heading_deg, asset, lat, lon) ==
    IF heading_deg = 0 /\ (asset.location_lat # lat \/ asset.location_lon # lon)
    THEN calc_bearing(lat, lon, asset.location_lat, asset.location_lon)
    ELSE heading_deg

\* "compute heading from previous location if not provided"
ComputeHeading(heading_deg, asset, lat, lon) ==
    IF heading_deg = 0 /\ (asset.location_lat # lat \/ asset.location_lon # lon)
    THEN calc_bearing(asset.location_lat, asset.location_lon, lat, lon)
    ELSE heading_deg

\* prev_inside / new_inside of _check_geofences
Inside(lat, lon, f) ==
    calc_distance(lat, lon, f.center_lat, f.center_lon) <= f.radius_km

\* a variant that forgets the previous side: "enter" whenever the new position
\* is inside
EventTypeNewOnly(prev_inside, new_inside) ==
    IF new_inside THEN "enter"
    ELSE IF prev_inside THEN "exit"
    ELSE ""

\* event_type of _check_geofences; "" stands for None
EventType(prev_inside, new_inside) ==
    IF ~prev_inside /\ new_inside THEN "enter"
    ELSE IF prev_inside /\ ~new_inside THEN "exit"
    ELSE ""

\* ---------------------------------------------------------------- frames
EmptyFrame ==
    [op |-> "", asset_id |-> "", lat |-> 0, lon |-> 0, speed_kmh |-> 0,
     heading_arg |-> 0, heading_deg |-> 0, asset |-> <<>>, point |-> <<>>,
     fences |-> <<>>, k |-> 0, event_type |-> "", ev_ts |-> 0, obj |-> <<>>,
     result |-> "", sample |-> 0, emitted |-> <<>>,
     since |-> 0, history |-> <<>>, ret |-> <<>>,
     radius_km |-> 0, hours |-> 0,
     lat1 |-> 0, lon1 |-> 0, lat2 |-> 0, lon2 |-> 0]

\* an update_location call on asset_id that has passed validation and has not
\* returned yet
InFlight(asset_id) ==
    \E u \in Threads : /\ frame[u].op = "update_location"
                       /\ frame[u].asset_id = asset_id
                       /\ pc[u] \notin {"idle", "done"}

HasSample(asset_id) ==
    \E i \in DOMAIN locations : locations[i].asset_id = asset_id

Init ==
    /\ assets = <<>>
    /\ locations = <<>>
    /\ geofences = <<>>
    /\ geofence_events = <<>>
    /\ lock = NoThread
    /\ now = 0
    /\ pc = [t \in Procs |-> "idle"]
    /\ frame = [t \in Procs |-> EmptyFrame]
    /\ hist = [a \in AssetIds |->
                 [reg_lat |-> 0, reg_lon |-> 0, updated |-> FALSE,
                  disturbed |-> FALSE]]
    /\ calls = [register_asset |-> 0, add_geofence |-> 0, update_location |-> 0]

\* ---------------------------------------------------------- register_asset
RegisterCall(t) ==
    /\ pc[t] = "idle"
    /\ "register_asset" \in Calls(t)
    /\ calls.register_asset < MaxRegisters
    /\ calls.register_asset + calls.add_geofence < MaxSetupCalls
    /\ \E in \in RegisterInputs, ts \in ClockReadings :
          /\ now' = ts
          /\ frame' = [frame EXCEPT ![t] =
                         [EmptyFrame EXCEPT
                             !.op = "register_asset",
                             !.obj = <<Asset(in[1], in[2], in[3], ts)>>]]
    /\ pc' = [pc EXCEPT ![t] = "r_lock"]
    /\ calls' = [calls EXCEPT !.register_asset = @ + 1]
    /\ UNCHANGED <<assets, locations, geofences, geofence_events, lock, hist>>

RegisterLock(t) ==
    /\ pc[t] = "r_lock"
    /\ lock = NoThread
    /\ lock' = t
    /\ pc' = [pc EXCEPT ![t] = "r_write"]
    /\ UNCHANGED <<assets, locations, geofences, geofence_events, now, frame,
                   hist, calls>>

RegisterWrite(t) ==
    /\ pc[t] = "r_write"
    /\ LET asset == frame[t].obj[1] IN
         /\ assets' = InsertOrReplace(assets, asset)
         /\ hist' = [hist EXCEPT ![asset.id] =
                       [reg_lat |-> asset.location_lat,
                        reg_lon |-> asset.location_lon,
                        updated |-> FALSE,
                        disturbed |-> @.disturbed
                                       \/ GetAsset(assets, asset.id) # <<>>]]
    /\ lock' = NoThread
    /\ pc' = [pc EXCEPT ![t] = "idle"]
    /\ frame' = [frame EXCEPT ![t] = EmptyFrame]
    /\ UNCHANGED <<locations, geofences, geofence_events, now, calls>>

\* ------------------------------------------------------------ add_geofence
GeofenceCall(t) ==
    /\ pc[t] = "idle"
    /\ "add_geofence" \in Calls(t)
    /\ calls.add_geofence < MaxGeofenceOps
    /\ calls.register_asset + calls.add_geofence < MaxSetupCalls
    /\ \E in \in GeofenceInputs, active \in BOOLEAN :
          frame' = [frame EXCEPT ![t] =
                      [EmptyFrame EXCEPT
                          !.op = "add_geofence",
                          !.obj = <<Geofence(in[1], in[2], in[3], in[4], active)>>]]
    /\ pc' = [pc EXCEPT ![t] = "g_lock"]
    /\ calls' = [calls EXCEPT !.add_geofence = @ + 1]
    /\ UNCHANGED <<assets, locations, geofences, geofence_events, lock, now, hist>>

GeofenceLock(t) ==
    /\ pc[t] = "g_lock"
    /\ lock = NoThread
    /\ lock' = t
    /\ pc' = [pc EXCEPT ![t] = "g_write"]
    /\ UNCHANGED <<assets, locations, geofences, geofence_events, now, frame,
                   hist, calls>>

GeofenceWrite(t) ==
    /\ pc[t] = "g_write"
    /\ geofences' = InsertOrReplace(geofences, frame[t].obj[1])
    /\ hist' = [a \in AssetIds |->
                  [hist[a] EXCEPT !.disturbed = @ \/ HasSample(a) \/ InFlight(a)]]
    /\ lock' = NoThread
    /\ pc' = [pc EXCEPT ![t] = "idle"]
    /\ frame' = [frame EXCEPT ![t] = EmptyFrame]
    /\ UNCHANGED <<assets, locations, geofence_events, now, calls>>

\* --------------------------------------------------------- update_location
\* lines 234-241: the call and its argument validation
UpdateCall(t) ==
    /\ pc[t] = "idle"
    /\ "update_location" \in Calls(t)
    /\ calls.update_location < MaxUpdates
    /\ \E in \in UpdateInputs, speed_kmh \in SpeedInputs :
          LET asset_id == in[1]
              lat == in[2]
              lon == in[3]
              args == [EmptyFrame EXCEPT !.op = "update_location",
                                         !.asset_id = asset_id,
                                         !.lat = lat, !.lon = lon,
                                         !.speed_kmh = speed_kmh,
                                         !.heading_arg = in[4],
                                         !.heading_deg = in[4]]
          IN IF ValidLat(lat) /\ ValidLon(lon)
             THEN /\ frame' = [frame EXCEPT ![t] = args]
                  /\ pc' = [pc EXCEPT ![t] = "u_get"]
                  /\ hist' = [hist EXCEPT ![asset_id].disturbed =
                                @ \/ InFlight(asset_id)]
             ELSE /\ frame' = [frame EXCEPT ![t] =
                                 [args EXCEPT !.result = "InvalidCoordinate"]]
                  /\ pc' = [pc EXCEPT ![t] = "done"]
                  /\ UNCHANGED hist
    /\ calls' = [calls EXCEPT !.update_location = @ + 1]
    /\ UNCHANGED <<assets, locations, geofences, geofence_events, lock, now>>

\* lines 243-251: get_asset, the not-found check and the heading
UpdateGet(t) ==
    /\ pc[t] = "u_get"
    /\ LET asset == GetAsset(assets, frame[t].asset_id) IN
         IF asset = <<>>
         THEN /\ frame' = [frame EXCEPT ![t].result = "AssetNotFound"]
              /\ pc' = [pc EXCEPT ![t] = "done"]
         ELSE /\ frame' = [frame EXCEPT
                             ![t].asset = asset,
                             ![t].heading_deg =
                                 ComputeHeading(frame[t].heading_arg, asset[1],
                                                frame[t].lat, frame[t].lon)]
              /\ pc' = [pc EXCEPT ![t] = "u_now"]
    /\ UNCHANGED <<assets, locations, geofences, geofence_events, lock, now,
                   hist, calls>>

\* lines 253-258: the timestamp and the LocationPoint
UpdateNow(t) ==
    /\ pc[t] = "u_now"
    /\ \E ts \in ClockReadings :
          /\ now' = ts
          /\ frame' = [frame EXCEPT ![t].point =
                         <<LocationPoint(frame[t].asset_id, frame[t].lat,
                                         frame[t].lon, frame[t].speed_kmh,
                                         frame[t].heading_deg, ts)>>]
    /\ pc' = [pc EXCEPT ![t] = "u_lock"]
    /\ UNCHANGED <<assets, locations, geofences, geofence_events, lock, hist,
                   calls>>

\* line 260: with _LOCK
UpdateLock(t) ==
    /\ pc[t] = "u_lock"
    /\ lock = NoThread
    /\ lock' = t
    /\ pc' = [pc EXCEPT ![t] = "u_write"]
    /\ UNCHANGED <<assets, locations, geofences, geofence_events, now, frame,
                   hist, calls>>

\* a variant whose with block does not end before _check_geofences: the
\* transaction commits and the call goes on holding the lock
UpdateWriteInsideLock(t) ==
    /\ pc[t] = "u_write"
    /\ LET point == frame[t].point[1] IN
         /\ locations' = InsertLocation(locations, point)
         /\ assets' = UpdateAssetRow(assets, point.asset_id, point.lat, point.lon,
                                     point.speed_kmh, point.heading_deg,
                                     point.timestamp)
         /\ hist' = [hist EXCEPT ![point.asset_id].updated = TRUE]
    /\ frame' = [frame EXCEPT ![t].sample = Len(locations')]
    /\ lock' = t
    /\ pc' = [pc EXCEPT ![t] = "u_select"]
    /\ UNCHANGED <<geofences, geofence_events, now, calls>>

\* lines 261-271: one transaction inserts the sample and updates the asset
\* row; it commits, and the lock is released, when the with block exits
UpdateWrite(t) ==
    /\ pc[t] = "u_write"
    /\ LET point == frame[t].point[1] IN
         /\ locations' = InsertLocation(locations, point)
         /\ assets' = UpdateAssetRow(assets, point.asset_id, point.lat, point.lon,
                                     point.speed_kmh, point.heading_deg,
                                     point.timestamp)
         /\ hist' = [hist EXCEPT ![point.asset_id].updated = TRUE]
    /\ frame' = [frame EXCEPT ![t].sample = Len(locations')]
    /\ lock' = NoThread
    /\ pc' = [pc EXCEPT ![t] = "u_select"]
    /\ UNCHANGED <<geofences, geofence_events, now, calls>>

\* lines 333-336: _check_geofences reads the active fences
SelectFences(t) ==
    /\ pc[t] = "u_select"
    /\ frame' = [frame EXCEPT ![t].fences = SelectActiveFences(geofences),
                              ![t].k = 1]
    /\ pc' = [pc EXCEPT ![t] = "u_loop"]
    /\ UNCHANGED <<assets, locations, geofences, geofence_events, lock, now,
                   hist, calls>>

\* lines 337-353: the loop over the fences runs on to the next fence with a
\* transition, whose event gets its timestamp, or past the last fence, where
\* update_location returns (line 275)
NextEvent(fences, k, prev_asset, lat, lon) ==
    {j \in k..Len(fences) :
        EventType(Inside(prev_asset.location_lat, prev_asset.location_lon,
                         fences[j]),
                  Inside(lat, lon, fences[j])) # ""}

Min(S) == CHOOSE x \in S : \A y \in S : x <= y

CheckFences(t) ==
    /\ pc[t] = "u_loop"
    /\ LET prev_asset == frame[t].asset[1]
           todo == NextEvent(frame[t].fences, frame[t].k, prev_asset,
                             frame[t].lat, frame[t].lon)
       IN IF todo = {}
          THEN /\ frame' = [frame EXCEPT ![t] = EmptyFrame]
               /\ pc' = [pc EXCEPT ![t] = "idle"]
               /\ now' = now
          ELSE LET f == frame[t].fences[Min(todo)]
                   prev_inside == Inside(prev_asset.location_lat,
                                         prev_asset.location_lon, f)
                   new_inside == Inside(frame[t].lat, frame[t].lon, f)
               IN \E ts \in ClockReadings :
                    /\ now' = ts
                    /\ frame' = [frame EXCEPT
                                    ![t].k = Min(todo),
                                    ![t].event_type =
                                        EventType(prev_inside, new_inside),
                                    ![t].ev_ts = ts]
                    /\ pc' = [pc EXCEPT ![t] = "e_lock"]
    /\ UNCHANGED <<assets, locations, geofences, geofence_events, lock, hist,
                   calls>>

\* line 354: with _LOCK
EventLock(t) ==
    /\ pc[t] = "e_lock"
    /\ lock = NoThread
    /\ lock' = t
    /\ pc' = [pc EXCEPT ![t] = "e_write"]
    /\ UNCHANGED <<assets, locations, geofences, geofence_events, now, frame,
                   hist, calls>>

\* lines 355-360: the event row is inserted and committed, the lock released
EventWrite(t) ==
    /\ pc[t] = "e_write"
    /\ geofence_events' =
          Append(geofence_events,
                 GeofenceEvent(frame[t].asset_id,
                               frame[t].fences[frame[t].k].id,
                               frame[t].event_type, frame[t].lat, frame[t].lon,
                               frame[t].ev_ts))
    /\ frame' = [frame EXCEPT ![t].k = @ + 1,
                              ![t].event_type = "",
                              ![t].ev_ts = 0,
                              ![t].emitted = Append(@, Len(geofence_events'))]
    /\ lock' = NoThread
    /\ pc' = [pc EXCEPT ![t] = "u_loop"]
    /\ UNCHANGED <<assets, locations, geofences, now, hist, calls>>

\* the ValueError of lines 239, 241 or 245, of detect_idle (line 415) or of
\* math.sqrt (line 158) reaches the caller
Raise(t) ==
    /\ pc[t] = "done"
    /\ frame' = [frame EXCEPT ![t] = EmptyFrame]
    /\ pc' = [pc EXCEPT ![t] = "idle"]
    /\ UNCHANGED <<assets, locations, geofences, geofence_events, lock, now,
                   hist, calls>>

Next ==
    \/ \E t \in Threads : RegisterCall(t)
    \/ \E t \in Threads : RegisterLock(t)
    \/ \E t \in Threads : RegisterWrite(t)
    \/ \E t \in Threads : GeofenceCall(t)
    \/ \E t \in Threads : GeofenceLock(t)
    \/ \E t \in Threads : GeofenceWrite(t)
    \/ \E t \in Threads : UpdateCall(t)
    \/ \E t \in Threads : UpdateGet(t)
    \/ \E t \in Threads : UpdateNow(t)
    \/ \E t \in Threads : UpdateLock(t)
    \/ \E t \in Threads : UpdateWrite(t)
    \/ \E t \in Threads : SelectFences(t)
    \/ \E t \in Threads : CheckFences(t)
    \/ \E t \in Threads : EventLock(t)
    \/ \E t \in Threads : EventWrite(t)
    \/ \E t \in Threads : Raise(t)

Spec == Init /\ [][Next]_vars

\* ------------------------------------------------------------ detect_idle
\* a variant without the ORDER BY
InRowidOrder(rows) == rows

\* ORDER BY timestamp ASC; rows with equal timestamps stay in rowid order
RECURSIVE SortByTimestamp(_)
SortByTimestamp(rows) ==
    IF rows = <<>> THEN <<>>
    ELSE LET first == Min({rows[i].timestamp : i \in DOMAIN rows})
         IN SelectSeq(rows, LAMBDA p : p.timestamp = first)
              \o SortByTimestamp(SelectSeq(rows, LAMBDA p : p.timestamp # first))

\* a variant without the timestamp>=? condition
GetWholeHistory(table, asset_id, since) ==
    SortByTimestamp(SelectSeq(table, LAMBDA p : p.asset_id = asset_id))

\* get_asset_history: SELECT * FROM locations WHERE asset_id=? AND
\* timestamp>=? ORDER BY timestamp ASC
GetAssetHistory(table, asset_id, since) ==
    SortByTimestamp(SelectSeq(table, LAMBDA p : /\ p.asset_id = asset_id
                                                /\ p.timestamp >= since))

\* the distance summed over the consecutive points of a history
RECURSIVE TotalKm(_)
TotalKm(history) ==
    IF Len(history) < 2 THEN 0
    ELSE calc_distance(history[1].lat, history[1].lon,
                       history[2].lat, history[2].lon) + TotalKm(Tail(history))

DetectIdleCall(r) ==
    /\ pc[r] = "idle"
    /\ \E asset_id \in AssetIds :
          frame' = [frame EXCEPT ![r] = [EmptyFrame EXCEPT !.op = "detect_idle",
                                                           !.asset_id = asset_id]]
    /\ pc' = [pc EXCEPT ![r] = "i_history"]
    /\ UNCHANGED <<assets, locations, geofences, geofence_events, lock, now,
                   hist, calls>>

\* line 411: the history of the window; with history, lines 423-446 compute
\* the result from it alone
DetectIdleHistory(r) ==
    /\ pc[r] = "i_history"
    /\ \E ts \in ClockReadings :
          LET since == ts - HistoryWindow
              history == GetAssetHistory(locations, frame[r].asset_id, since)
              total_km == TotalKm(history)
          IN /\ now' = ts
             /\ IF history = <<>>
                THEN /\ frame' = [frame EXCEPT ![r].since = since]
                     /\ pc' = [pc EXCEPT ![r] = "i_asset"]
                ELSE /\ frame' = [frame EXCEPT
                            ![r].since = since,
                            ![r].history = history,
                            ![r].ret =
                               <<[asset_id |-> frame[r].asset_id,
                                  idle |-> total_km < IDLE_MOVEMENT_THRESHOLD_KM,
                                  total_km_in_window |-> total_km,
                                  window_minutes |->
                                     history[Len(history)].timestamp
                                        - history[1].timestamp,
                                  threshold_km |-> IDLE_MOVEMENT_THRESHOLD_KM,
                                  points |-> Len(history)]>>]
                     /\ pc' = [pc EXCEPT ![r] = "i_return"]
    /\ UNCHANGED <<assets, locations, geofences, geofence_events, lock, hist,
                   calls>>

\* lines 412-422: without history, the asset is read for its last_seen
DetectIdleAsset(r) ==
    /\ pc[r] = "i_asset"
    /\ LET asset == GetAsset(assets, frame[r].asset_id) IN
         IF asset = <<>>
         THEN /\ frame' = [frame EXCEPT ![r].result = "AssetNotFound"]
              /\ pc' = [pc EXCEPT ![r] = "done"]
              /\ UNCHANGED now
         ELSE \E ts \in ClockReadings :
                 /\ now' = ts
                 /\ frame' = [frame EXCEPT
                        ![r].asset = asset,
                        ![r].ret =
                           <<[asset_id |-> frame[r].asset_id, idle |-> TRUE,
                              minutes_idle |-> ts - asset[1].last_seen,
                              reason |-> "no_history"]>>]
                 /\ pc' = [pc EXCEPT ![r] = "i_return"]
    /\ UNCHANGED <<assets, locations, geofences, geofence_events, lock, hist,
                   calls>>

DetectIdleReturn(r) ==
    /\ pc[r] = "i_return"
    /\ frame' = [frame EXCEPT ![r] = EmptyFrame]
    /\ pc' = [pc EXCEPT ![r] = "idle"]
    /\ UNCHANGED <<assets, locations, geofences, geofence_events, lock, now,
                   hist, calls>>

\* a tracker set up as the test fixture does: v1 registered at
\* (40.7128, -74.0060) and a Depot geofence around it, here of radius 0.05 km
InitRegistered ==
    /\ assets = <<Asset("v1", 407128, -740060, 0)>>
    /\ locations = <<>>
    /\ geofences = <<Geofence("gf1", 407128, -740060, 500, TRUE)>>
    /\ geofence_events = <<>>
    /\ lock = NoThread
    /\ now = 0
    /\ pc = [t \in Procs |-> "idle"]
    /\ frame = [t \in Procs |-> EmptyFrame]
    /\ hist = [a \in AssetIds |->
                 IF a = "v1"
                 THEN [reg_lat |-> 407128, reg_lon |-> -740060,
                       updated |-> FALSE, disturbed |-> FALSE]
                 ELSE [reg_lat |-> 0, reg_lon |-> 0, updated |-> FALSE,
                       disturbed |-> FALSE]]
    /\ calls = [register_asset |-> 1, add_geofence |-> 1, update_location |-> 0]

\* location updates on the worker threads while a reader runs detect_idle
NextReaders ==
    \/ \E t \in Threads : UpdateCall(t)
    \/ \E t \in Threads : UpdateGet(t)
    \/ \E t \in Threads : UpdateNow(t)
    \/ \E t \in Threads : UpdateLock(t)
    \/ \E t \in Threads : UpdateWrite(t)
    \/ \E t \in Threads : SelectFences(t)
    \/ \E t \in Threads : CheckFences(t)
    \/ \E t \in Threads : EventLock(t)
    \/ \E t \in Threads : EventWrite(t)
    \/ \E t \in Procs : Raise(t)
    \/ \E r \in Readers : DetectIdleCall(r)
    \/ \E r \in Readers : DetectIdleHistory(r)
    \/ \E r \in Readers : DetectIdleAsset(r)
    \/ \E r \in Readers : DetectIdleReturn(r)

SpecReaders == InitRegistered /\ [][NextReaders]_vars

\* ------------------------------------------------------------- scheduling
\* thread t acquires _LOCK (lines 185, 260, 296, 354)
Acquire(t) ==
    RegisterLock(t) \/ GeofenceLock(t) \/ UpdateLock(t) \/ EventLock(t)

\* thread t takes a step of the call it is in that needs no lock acquisition
Proceed(t) ==
    \/ RegisterWrite(t) \/ GeofenceWrite(t)
    \/ UpdateGet(t) \/ UpdateNow(t) \/ UpdateWrite(t)
    \/ SelectFences(t) \/ CheckFences(t) \/ EventWrite(t)
    \/ Raise(t)

\* a running thread keeps running, and a thread that finds the lock free
\* again and again gets it; no caller is obliged to start a call
Fairness ==
    \A t \in Threads : WF_vars(Proceed(t)) /\ SF_vars(Acquire(t))

\* the calls of the worker threads on the tracker of the test fixture, under
\* fair scheduling
SpecFair == InitRegistered /\ [][Next]_vars /\ Fairness

\* ---------------------------------------------------------- get_assets_near
\* a variant that leaves the result in the order of the scan
Unsorted(rows) == rows

\* sorted(result, key=lambda x: x["distance_km"]): the sort is stable
RECURSIVE SortByDistance(_)
SortByDistance(rows) ==
    IF rows = <<>> THEN <<>>
    ELSE LET first == Min({rows[i].distance_km : i \in DOMAIN rows})
         IN SelectSeq(rows, LAMBDA x : x.distance_km = first)
              \o SortByDistance(SelectSeq(rows, LAMBDA x : x.distance_km # first))

\* lines 280-291 on the rows list_assets returned
NearResult(rows, lat, lon, radius_km) ==
    LET near == SelectSeq(rows, LAMBDA a :
                   calc_distance(lat, lon, a.location_lat, a.location_lon)
                      <= radius_km)
    IN SortByDistance(
          [i \in DOMAIN near |->
              [asset_id |-> near[i].id, name |-> near[i].name,
               type |-> near[i].type, lat |-> near[i].location_lat,
               lon |-> near[i].location_lon,
               distance_km |-> calc_distance(lat, lon, near[i].location_lat,
                                             near[i].location_lon),
               status |-> near[i].status]])

NearCall(r) ==
    /\ pc[r] = "idle"
    /\ \E in \in NearInputs :
          frame' = [frame EXCEPT ![r] =
                      [EmptyFrame EXCEPT !.op = "get_assets_near",
                                         !.lat = in[1], !.lon = in[2],
                                         !.radius_km = in[3]]]
    /\ pc' = [pc EXCEPT ![r] = "n_list"]
    /\ UNCHANGED <<assets, locations, geofences, geofence_events, lock, now,
                   hist, calls>>

\* line 280: list_assets() is one SELECT * FROM assets, rows in rowid order
NearList(r) ==
    /\ pc[r] = "n_list"
    /\ frame' = [frame EXCEPT ![r].ret =
                    <<NearResult(assets, frame[r].lat, frame[r].lon,
                                 frame[r].radius_km)>>]
    /\ pc' = [pc EXCEPT ![r] = "q_return"]
    /\ UNCHANGED <<assets, locations, geofences, geofence_events, lock, now,
                   hist, calls>>

\* -------------------------------------------------------- calc_trip_distance
TripCall(r) ==
    /\ pc[r] = "idle"
    /\ \E asset_id \in AssetIds, hours \in TripHours :
          frame' = [frame EXCEPT ![r] =
                      [EmptyFrame EXCEPT !.op = "calc_trip_distance",
                                         !.asset_id = asset_id,
                                         !.hours = hours]]
    /\ pc' = [pc EXCEPT ![r] = "t_history"]
    /\ UNCHANGED <<assets, locations, geofences, geofence_events, lock, now,
                   hist, calls>>

\* lines 399-406: the history since utcnow() - hours, and the sum over it
TripHistory(r) ==
    /\ pc[r] = "t_history"
    /\ \E ts \in ClockReadings :
          LET since == ts - 2 * frame[r].hours
              history == GetAssetHistory(locations, frame[r].asset_id, since)
          IN /\ now' = ts
             /\ frame' = [frame EXCEPT ![r].since = since,
                                       ![r].history = history,
                                       ![r].ret = <<TotalKm(history)>>]
    /\ pc' = [pc EXCEPT ![r] = "q_return"]
    /\ UNCHANGED <<assets, locations, geofences, geofence_events, lock, hist,
                   calls>>

\* get_assets_near, calc_trip_distance and calc_distance return their result
QueryReturn(r) ==
    /\ pc[r] = "q_return"
    /\ frame' = [frame EXCEPT ![r] = EmptyFrame]
    /\ pc' = [pc EXCEPT ![r] = "idle"]
    /\ UNCHANGED <<assets, locations, geofences, geofence_events, lock, now,
                   hist, calls>>

\* ----------------------------------------------------------- check_geofence
\* lines 307-329, for a registered asset and a stored geofence: the asset's
\* stored position against the circle of the geofence
check_geofence(asset_id, geofence_id) ==
    LET asset == GetAsset(assets, asset_id)[1]
        row == SelectSeq(geofences, LAMBDA f : f.id = geofence_id)[1]
        dist == calc_distance(asset.location_lat, asset.location_lon,
                              row.center_lat, row.center_lon)
    IN [asset_id |-> asset_id, geofence_id |-> geofence_id,
        geofence_name |-> row.name, inside |-> dist <= row.radius_km,
        distance_km |-> dist, radius_km |-> row.radius_km]

\* ------------------------------------------------------------ calc_distance
\* line 148: a caller applies calc_distance to two points
DistanceCall(r) ==
    /\ pc[r] = "idle"
    /\ \E a \in MathPoints, b \in MathPoints :
          frame' = [frame EXCEPT ![r] =
                      [EmptyFrame EXCEPT !.op = "calc_distance",
                                         !.lat1 = a[1], !.lon1 = a[2],
                                         !.lat2 = b[1], !.lon2 = b[2]]]
    /\ pc' = [pc EXCEPT ![r] = "d_compute"]
    /\ UNCHANGED <<assets, locations, geofences, geofence_events, lock, now,
                   hist, calls>>

\* lines 151-159: the haversine formula; the ValueError of math.sqrt leaves
\* the function
DistanceCompute(r) ==
    /\ pc[r] = "d_compute"
    /\ LET args == <<frame[r].lat1, frame[r].lon1, frame[r].lat2, frame[r].lon2>>
       IN IF args \in MathDomainErrors
          THEN /\ frame' = [frame EXCEPT ![r].result = "ValueError"]
               /\ pc' = [pc EXCEPT ![r] = "done"]
          ELSE /\ frame' = [frame EXCEPT ![r].ret =
                              <<calc_distance(args[1], args[2], args[3], args[4])>>]
               /\ pc' = [pc EXCEPT ![r] = "q_return"]
    /\ UNCHANGED <<assets, locations, geofences, geofence_events, lock, now,
                   hist, calls>>

\* a caller of the core math
NextMath ==
    \/ \E r \in Readers : DistanceCall(r)
    \/ \E r \in Readers : DistanceCompute(r)
    \/ \E r \in Readers : QueryReturn(r)
    \/ \E r \in Readers : Raise(r)

SpecMath == Init /\ [][NextMath]_vars

\* ------------------------------------------- trackers the queries run on
\* the time the assets of these trackers were registered at, and the times
\* their samples were taken at
RegisteredAt == 0 - HistoryWindow
PastTimes == RegisteredAt..0

\* asset tables of up to two assets registered at the query points, in
\* either rowid order
NearTables ==
    {<<>>}
    \cup {<<Asset(a, p[1], p[2], RegisteredAt)>> :
             a \in AssetIds, p \in QueryPoints}
    \cup {<<Asset(a, p[1], p[2], RegisteredAt),
            Asset(b, q[1], q[2], RegisteredAt)>> :
             <<a, b>> \in {ab \in AssetIds \X AssetIds : ab[1] # ab[2]},
             <<p, q>> \in QueryPoints \X QueryPoints}

\* the samples update_location("v1", lat, lon, speed_kmh=30, heading_deg=90)
\* stores, and the histories of up to MaxSamples of them in insertion order
PastSamples ==
    {LocationPoint("v1", p[1], p[2], 30, 900000, ts) :
        p \in QueryPoints, ts \in PastTimes}
Histories == UNION {[1..n -> PastSamples] : n \in 1..MaxSamples}

\* the asset row of v1, registered at (40.7128, -74.0060), after the updates
\* that left the history
AfterHistory(history) ==
    LET last == history[Len(history)]
    IN UpdateAssetRow(<<Asset("v1", 407128, -740060, RegisteredAt)>>, "v1",
                      last.lat, last.lon, last.speed_kmh, last.heading_deg,
                      last.timestamp)

\* a tracker with assets and no samples, or with v1 and a history of samples
InitQueries ==
    /\ geofences = <<>>
    /\ geofence_events = <<>>
    /\ lock = NoThread
    /\ now = 0
    /\ pc = [t \in Procs |-> "idle"]
    /\ frame = [t \in Procs |-> EmptyFrame]
    /\ calls = [register_asset |-> 0, add_geofence |-> 0, update_location |-> 0]
    /\ \/ /\ assets \in NearTables
          /\ locations = <<>>
          /\ hist = [a \in AssetIds |->
                       IF \E i \in DOMAIN assets : assets[i].id = a
                       THEN LET row == GetAsset(assets, a)[1]
                            IN [reg_lat |-> row.location_lat,
                                reg_lon |-> row.location_lon,
                                updated |-> FALSE, disturbed |-> FALSE]
                       ELSE [reg_lat |-> 0, reg_lon |-> 0, updated |-> FALSE,
                             disturbed |-> FALSE]]
       \/ /\ locations \in Histories
          /\ assets = AfterHistory(locations)
          /\ hist = [a \in AssetIds |->
                       IF a = "v1"
                       THEN [reg_lat |-> 407128, reg_lon |-> -740060,
                             updated |-> TRUE, disturbed |-> FALSE]
                       ELSE [reg_lat |-> 0, reg_lon |-> 0, updated |-> FALSE,
                             disturbed |-> FALSE]]

\* a reader running the read-only operations
NextQueries ==
    \/ \E r \in Readers : NearCall(r)
    \/ \E r \in Readers : NearList(r)
    \/ \E r \in Readers : TripCall(r)
    \/ \E r \in Readers : TripHistory(r)
    \/ \E r \in Readers : QueryReturn(r)
    \/ \E r \in Readers : DetectIdleCall(r)
    \/ \E r \in Readers : DetectIdleHistory(r)
    \/ \E r \in Readers : DetectIdleAsset(r)
    \/ \E r \in Readers : DetectIdleReturn(r)
    \/ \E r \in Readers : Raise(r)

SpecQueries == InitQueries /\ [][NextQueries]_vars

\* ======================================================================
\* Properties
\* ======================================================================
DB == <<assets, locations, geofences, geofence_events>>

Moves(t) == pc'[t] # pc[t]

Registered(asset_id) == \E i \in DOMAIN assets : assets[i].id = asset_id

\* the stored row of a registered asset
Row(table, asset_id) ==
    table[CHOOSE i \in DOMAIN table : table[i].id = asset_id]

\* lat, lon within distance radius_km of the center of the geofence f
Within(lat, lon, f) ==
    DistanceTable[<<lat, lon, f.center_lat, f.center_lon>>] <= f.radius_km

InGeofenceCheck(t) == pc[t] \in {"u_loop", "e_lock", "e_write"}

\* the types of the events, in the order recorded, that the call of thread t
\* has recorded for the geofence gid
RecordedTypes(t, gid) ==
    LET mine == SelectSeq(frame[t].emitted,
                          LAMBDA i : geofence_events[i].geofence_id = gid)
    IN [n \in DOMAIN mine |-> geofence_events[mine[n]].event_type]

\* the events one update owes a zone: the position it read, the new position
ExpectedTypes(prev_lat, prev_lon, lat, lon, f) ==
    IF ~Within(prev_lat, prev_lon, f) /\ Within(lat, lon, f) THEN <<"enter">>
    ELSE IF Within(prev_lat, prev_lon, f) /\ ~Within(lat, lon, f) THEN <<"exit">>
    ELSE <<>>

FenceSettled(t, j) ==
    RecordedTypes(t, frame[t].fences[j].id)
        = ExpectedTypes(frame[t].asset[1].location_lat,
                        frame[t].asset[1].location_lon,
                        frame[t].lat, frame[t].lon, frame[t].fences[j])

Returns(t) == pc[t] = "u_loop" /\ pc'[t] = "idle"

\* C1: for one accepted update_location call and every active geofence it
\* read, with prev_inside taken at the position the call read as the asset's
\* current one and new_inside at the new position: the call records exactly
\* one enter when it goes from outside to inside, exactly one exit when it
\* goes from inside to outside, and nothing otherwise - never an enter and an
\* exit for one zone.  Checked while the call runs (every fence the loop has
\* passed is settled, no later fence has an event yet, every event carries
\* the call's asset and new position) and when it returns (every fence is
\* settled).
C1_OneEventPerTransition ==
    [][\A t \in Threads :
         /\ InGeofenceCheck(t) =>
              /\ \A j \in 1..Len(frame[t].fences) :
                    IF j < frame[t].k THEN FenceSettled(t, j)
                    ELSE RecordedTypes(t, frame[t].fences[j].id) = <<>>
              /\ \A n \in DOMAIN frame[t].emitted :
                    LET e == geofence_events[frame[t].emitted[n]] IN
                      /\ e.asset_id = frame[t].asset_id
                      /\ e.lat = frame[t].lat /\ e.lon = frame[t].lon
                      /\ \E j \in 1..Len(frame[t].fences) :
                            frame[t].fences[j].id = e.geofence_id
         /\ Returns(t) => \A j \in 1..Len(frame[t].fences) : FenceSettled(t, j)
      ]_vars

\* a call about to return that read two active fences and recorded an enter
\* for one and an exit for the other
C1_Witness ==
    \E t \in Threads :
       /\ pc[t] = "u_loop"
       /\ Len(frame[t].fences) = 2
       /\ frame[t].k > 2
       /\ \E j1, j2 \in 1..2 :
             /\ RecordedTypes(t, frame[t].fences[j1].id) = <<"enter">>
             /\ RecordedTypes(t, frame[t].fences[j2].id) = <<"exit">>

\* the positions asset_id has had: where it was registered, then its accepted
\* samples in insertion order
Path(asset_id) ==
    LET samples == SelectSeq(locations, LAMBDA p : p.asset_id = asset_id)
    IN <<<<hist[asset_id].reg_lat, hist[asset_id].reg_lon>>>>
         \o [n \in DOMAIN samples |-> <<samples[n].lat, samples[n].lon>>]

\* the inside/outside changes of the zone f along a path
RECURSIVE Transitions(_, _)
Transitions(path, f) ==
    IF Len(path) < 2 THEN <<>>
    ELSE ExpectedTypes(path[1][1], path[1][2], path[2][1], path[2][2], f)
           \o Transitions(Tail(path), f)

\* the types of the events recorded for the pair asset_id, gid, in order
EventsOf(asset_id, gid) ==
    LET evs == SelectSeq(geofence_events,
                         LAMBDA e : e.asset_id = asset_id /\ e.geofence_id = gid)
    IN [n \in DOMAIN evs |-> evs[n].event_type]

\* the updates of asset_id so far did not overlap one another, the geofences
\* were not changed once its updates began, and it was registered once
Undisturbed(asset_id) == Registered(asset_id) /\ ~hist[asset_id].disturbed

\* C2: after any sequence of non-overlapping accepted update_location calls
\* on one asset, with the geofences fixed and no re-registration, the events
\* recorded for each active zone are exactly the inside/outside changes
\* between consecutive accepted positions, starting from the registration
\* position: one enter per outside-to-inside change, one exit per
\* inside-to-outside change, nothing for an update that stays on its side;
\* and nothing at all for an inactive zone.
C2_EventsFollowPath ==
    \A a \in AssetIds :
       (Undisturbed(a) /\ ~InFlight(a)) =>
          \A i \in DOMAIN geofences :
             EventsOf(a, geofences[i].id)
                = IF geofences[i].active
                  THEN Transitions(Path(a), geofences[i])
                  ELSE <<>>

\* two updates in sequence took an asset into a zone and out of it again
C2_Witness ==
    \E a \in AssetIds :
       /\ Undisturbed(a) /\ ~InFlight(a)
       /\ Len(Path(a)) = 3
       /\ \E i \in DOMAIN geofences :
             /\ geofences[i].active
             /\ EventsOf(a, geofences[i].id) = <<"enter", "exit">>

\* thread t commits its sample and asset row in this step
Commits(t) == pc[t] = "u_write" /\ pc'[t] = "u_select"

\* some other update_location call on the same asset is between its read of
\* the asset and its return
Overlapped(t) ==
    \E u \in Threads \ {t} :
       /\ frame[u].op = "update_location"
       /\ frame[u].asset_id = frame[t].asset_id
       /\ pc[u] \notin {"idle", "done", "u_get"}

\* C3: concurrent update_location calls for the same asset are serialized:
\* in every interleaving of two overlapping calls on one asset (registered
\* once), the previous position a call uses for geofence evaluation is the
\* position committed by the write that immediately precedes its own write,
\* that is, the position the asset row holds when the call commits.
C3_PreviousIsLastCommitted ==
    [][\A t \in Threads :
          (Commits(t) /\ Overlapped(t) /\ calls.register_asset <= 1) =>
             LET prev == frame[t].asset[1]
                 row  == Row(assets, frame[t].asset_id)
             IN /\ prev.location_lat = row.location_lat
                /\ prev.location_lon = row.location_lon]_vars

\* the last accepted sample of asset_id, in the order the samples were
\* committed
LastSample(asset_id) ==
    LET samples == SelectSeq(locations, LAMBDA p : p.asset_id = asset_id)
    IN samples[Len(samples)]

\* C4: in every reachable state, after any sequence of register_asset,
\* update_location and add_geofence calls, an asset with at least one
\* accepted sample has a current position equal to the lat/lon of its most
\* recent accepted sample.
C4_PositionIsLastSample ==
    \A a \in AssetIds :
       HasSample(a) =>
          /\ Registered(a)
          /\ Row(assets, a).location_lat = LastSample(a).lat
          /\ Row(assets, a).location_lon = LastSample(a).lon

\* thread t enters update_location in this step
Enters(t) == pc[t] = "idle" /\ frame'[t].op = "update_location"

\* thread t is leaving update_location with the error kind
Fails(t, kind) == pc[t] = "done" /\ frame[t].result = kind /\ Moves(t)

\* C6: update_location with a latitude outside [-90, 90] or a longitude
\* outside [-180, 180] fails with an invalid-coordinate error and commits
\* nothing: no step of the call changes the assets, the location history,
\* the geofences or the geofence event log.
C6_InvalidCoordinateCommitsNothing ==
    [][\A t \in Threads :
          /\ (/\ Enters(t)
              /\ \/ frame'[t].lat < MinLat \/ frame'[t].lat > MaxLat
                 \/ frame'[t].lon < MinLon \/ frame'[t].lon > MaxLon)
                => /\ pc'[t] = "done"
                   /\ frame'[t].result = "InvalidCoordinate"
                   /\ UNCHANGED DB
          /\ Fails(t, "InvalidCoordinate")
                => /\ pc'[t] = "idle"
                   /\ UNCHANGED DB]_vars

\* a call on a registered asset that already has history was rejected for
\* its coordinate
C6_Witness ==
    \E t \in Threads :
       /\ pc[t] = "done"
       /\ frame[t].result = "InvalidCoordinate"
       /\ Registered(frame[t].asset_id)
       /\ HasSample(frame[t].asset_id)

\* C7: update_location for an asset id that is not registered fails with an
\* asset-not-found error; no step of the call appends a sample, creates an
\* asset record or records a geofence event.
C7_UnknownAssetWritesNothing ==
    [][\A t \in Threads :
          /\ (pc[t] = "u_get" /\ Moves(t) /\ ~Registered(frame[t].asset_id))
                => /\ pc'[t] = "done"
                   /\ frame'[t].result = "AssetNotFound"
                   /\ UNCHANGED DB
          /\ Fails(t, "AssetNotFound")
                => /\ pc'[t] = "idle"
                   /\ UNCHANGED DB
          /\ (Enters(t) /\ pc'[t] # "done") => UNCHANGED DB]_vars

\* a call named an unknown id while another asset was registered
C7_Witness ==
    \E t \in Threads :
       /\ pc[t] = "done"
       /\ frame[t].result = "AssetNotFound"
       /\ ~Registered(frame[t].asset_id)
       /\ assets # <<>>

\* the sample thread t committed is the first one of its asset
FirstSample(t) ==
    /\ frame[t].sample # 0
    /\ \A i \in 1..(frame[t].sample - 1) :
          locations[i].asset_id # frame[t].asset_id

\* the new position of t's call is the position the call read
SamePosition(t) ==
    /\ frame[t].asset[1].location_lat = frame[t].lat
    /\ frame[t].asset[1].location_lon = frame[t].lon

\* C8 as the specification words it: the first location update of a freshly
\* registered asset (registered once, geofences in place before the update,
\* no overlapping update) produces no enter or exit event for any zone.
C8_FirstUpdateNoEvent ==
    \A t \in Threads :
       (/\ InGeofenceCheck(t)
        /\ FirstSample(t)
        /\ Undisturbed(frame[t].asset_id))
          => frame[t].emitted = <<>>

\* C8: the first location update of a freshly registered asset is evaluated
\* against the registration position it read as the previous position; it
\* records an enter or exit event for a zone exactly when that registration
\* position and the new position lie on different sides of the zone's
\* boundary, and none when the new position equals the registration position.
C8_FirstUpdateAgainstRegistration ==
    [][\A t \in Threads :
          /\ (/\ pc[t] = "u_get" /\ pc'[t] = "u_now"
              /\ ~HasSample(frame[t].asset_id))
                => /\ frame'[t].asset[1].location_lat
                         = hist[frame[t].asset_id].reg_lat
                   /\ frame'[t].asset[1].location_lon
                         = hist[frame[t].asset_id].reg_lon
          /\ (Returns(t) /\ FirstSample(t))
                => /\ \A j \in 1..Len(frame[t].fences) : FenceSettled(t, j)
                   /\ SamePosition(t) => frame[t].emitted = <<>>]_vars

\* the first update of an asset registered outside a zone took it inside and
\* an enter was recorded
C8_Witness ==
    \E t \in Threads :
       /\ pc[t] = "u_loop"
       /\ FirstSample(t)
       /\ Undisturbed(frame[t].asset_id)
       /\ frame[t].asset[1].location_lat = hist[frame[t].asset_id].reg_lat
       /\ frame[t].asset[1].location_lon = hist[frame[t].asset_id].reg_lon
       /\ Len(frame[t].emitted) = 1
       /\ geofence_events[frame[t].emitted[1]].event_type = "enter"

\* the ids of the rows of a geofence table
Ids(table) == {table[i].id : i \in DOMAIN table}

\* C9: geofence evaluation during update_location considers only zones whose
\* active flag is true: the zones a call evaluates are exactly the rows that
\* are active when it reads the geofences, and every event it records is for
\* one of those, so no event is recorded for a zone that was inactive then.
C9_OnlyActiveZones ==
    [][\A t \in Threads :
          /\ (pc[t] = "u_select" /\ Moves(t))
                => /\ \A j \in DOMAIN frame'[t].fences :
                         /\ frame'[t].fences[j].active
                         /\ \E i \in DOMAIN geofences :
                               geofences[i] = frame'[t].fences[j]
                   /\ \A i \in DOMAIN geofences :
                         geofences[i].active
                            => geofences[i].id \in Ids(frame'[t].fences)
          /\ InGeofenceCheck(t)
                => \A j \in DOMAIN frame[t].fences : frame[t].fences[j].active
          /\ (pc[t] = "e_write" /\ Moves(t))
                => /\ Len(geofence_events') = Len(geofence_events) + 1
                   /\ geofence_events'[Len(geofence_events')].geofence_id
                         \in Ids(frame[t].fences)]_vars

\* a call crossed the boundary of a zone that was inactive when it read the
\* geofences, evaluated nothing and recorded nothing
C9_Witness ==
    \E t \in Threads :
       /\ pc[t] = "u_loop"
       /\ frame[t].fences = <<>>
       /\ frame[t].emitted = <<>>
       /\ \E i \in DOMAIN geofences :
             /\ ~geofences[i].active
             /\ ExpectedTypes(frame[t].asset[1].location_lat,
                              frame[t].asset[1].location_lon,
                              frame[t].lat, frame[t].lon, geofences[i]) # <<>>

\* C10: the heading stored in the sample and on the asset by update_location
\* is the bearing from the previous position the call read to the new
\* position when the supplied heading is 0 and the new position differs from
\* that previous position; in every other case it is the supplied heading.
C10_StoredHeading ==
    [][\A t \in Threads :
          Commits(t) =>
             LET prev == frame[t].asset[1]
                 expected ==
                    IF /\ frame[t].heading_arg = 0
                       /\ \/ prev.location_lat # frame[t].lat
                          \/ prev.location_lon # frame[t].lon
                    THEN BearingTable[<<prev.location_lat, prev.location_lon,
                                        frame[t].lat, frame[t].lon>>]
                    ELSE frame[t].heading_arg
             IN /\ locations'[Len(locations')].heading_deg = expected
                /\ Row(assets', frame[t].asset_id).heading_deg = expected]_vars

\* a call that supplied no heading moved the asset south and the bearing of
\* 180 degrees was stored on the sample and the asset
C10_Witness ==
    \E t \in Threads :
       /\ pc[t] = "u_select"
       /\ frame[t].heading_arg = 0
       /\ ~SamePosition(t)
       /\ locations[frame[t].sample].heading_deg = 1800000
       /\ Row(assets, frame[t].asset_id).heading_deg = 1800000

\* C5: the append of the location sample and the update of the asset's
\* position, speed, heading and last_seen become visible together or not at
\* all: the step that appends a sample is the step that sets the asset row
\* to it, and detect_idle running beside an update never holds the asset
\* row of one state of the tables together with the history of another.
C5_AtomicVisibility ==
    [][/\ \A t \in Threads :
             Commits(t) =>
                LET point == frame[t].point[1]
                    row == Row(assets', point.asset_id)
                IN /\ locations' = Append(locations, point)
                   /\ row.location_lat = point.lat
                   /\ row.location_lon = point.lon
                   /\ row.speed_kmh = point.speed_kmh
                   /\ row.heading_deg = point.heading_deg
                   /\ row.last_seen = point.timestamp
       /\ (locations' # locations \/ assets' # assets)
             => \E t \in Threads : Commits(t)
       /\ \A r \in Readers :
             (pc[r] = "i_asset" /\ pc'[r] = "i_return")
                => GetAssetHistory(locations, frame[r].asset_id, frame[r].since)
                      = frame[r].history]_vars

\* the place of asset_id in the rows list_assets returns
RowIndex(asset_id) == CHOOSE i \in DOMAIN assets : assets[i].id = asset_id

\* reader r holds the result of the operation op and is about to return it
Answered(r, op) == pc[r] \in {"q_return", "i_return"} /\ frame[r].op = op

\* C11: get_assets_near(lat, lon, radius_km) returns exactly the registered
\* assets whose current position is at distance <= radius_km from the query
\* point, once each, each annotated with its position and its distance, in
\* ascending order of distance, assets at equal distance in the order of the
\* asset table.
C11_NearExactSortedStable ==
    \A r \in Readers :
       Answered(r, "get_assets_near") =>
          LET res == frame[r].ret[1]
              dist(i) == DistanceTable[<<frame[r].lat, frame[r].lon,
                                         assets[i].location_lat,
                                         assets[i].location_lon>>]
          IN /\ {res[n].asset_id : n \in DOMAIN res}
                   = {assets[i].id : i \in {j \in DOMAIN assets :
                                               dist(j) <= frame[r].radius_km}}
             /\ \A n, m \in DOMAIN res :
                   n < m =>
                      /\ res[n].asset_id # res[m].asset_id
                      /\ res[n].distance_km <= res[m].distance_km
                      /\ res[n].distance_km = res[m].distance_km
                            => RowIndex(res[n].asset_id) < RowIndex(res[m].asset_id)
             /\ \A n \in DOMAIN res :
                   LET i == RowIndex(res[n].asset_id)
                   IN /\ res[n].distance_km = dist(i)
                      /\ res[n].lat = assets[i].location_lat
                      /\ res[n].lon = assets[i].location_lon

\* two assets in range were returned nearest first, against their order in
\* the table
C11_Witness ==
    \E r \in Readers :
       /\ Answered(r, "get_assets_near")
       /\ Len(assets) = 2
       /\ Len(frame[r].ret[1]) = 2
       /\ frame[r].ret[1][1].asset_id = assets[2].id
       /\ frame[r].ret[1][1].distance_km < frame[r].ret[1][2].distance_km

\* the clock reading detect_idle took for its history
ReadAt(r) == frame[r].since + HistoryWindow

\* the samples of r's asset taken in the last threshold_minutes before that
\* reading, in time order
Recent(r) ==
    LET since == ReadAt(r) - threshold_minutes
    IN SortByTimestamp(SelectSeq(locations,
          LAMBDA p : p.asset_id = frame[r].asset_id /\ p.timestamp >= since))

\* the length of a path of samples
RECURSIVE PathKm(_)
PathKm(path) ==
    IF Len(path) < 2 THEN 0
    ELSE DistanceTable[<<path[1].lat, path[1].lon, path[2].lat, path[2].lon>>]
           + PathKm(Tail(path))

\* C12: detect_idle(asset, threshold_minutes) considers the asset's samples
\* of the last threshold_minutes, sums the distances between consecutive
\* ones into total_km and reports idle exactly when total_km < 0.1 km; older
\* samples do not contribute to the total, the count or the verdict.
C12_IdleOverRequestedWindow ==
    \A r \in Readers :
       (Answered(r, "detect_idle") /\ Recent(r) # <<>>) =>
          LET ret == frame[r].ret[1]
          IN /\ ret.total_km_in_window = PathKm(Recent(r))
             /\ ret.points = Len(Recent(r))
             /\ ret.idle = (PathKm(Recent(r)) < IDLE_MOVEMENT_THRESHOLD_KM)

\* all samples of r's asset are recent ones
AllRecent(r) ==
    \A i \in DOMAIN locations :
       locations[i].asset_id = frame[r].asset_id
          => \E n \in DOMAIN Recent(r) : Recent(r)[n] = locations[i]

\* the way the asset went in the last threshold_minutes: its recent samples,
\* from the registration position when the first update was among them
RecentPath(r) ==
    IF AllRecent(r)
    THEN <<[lat |-> hist[frame[r].asset_id].reg_lat,
            lon |-> hist[frame[r].asset_id].reg_lon]>>
           \o [n \in DOMAIN Recent(r) |->
                 [lat |-> Recent(r)[n].lat, lon |-> Recent(r)[n].lon]]
    ELSE [n \in DOMAIN Recent(r) |->
            [lat |-> Recent(r)[n].lat, lon |-> Recent(r)[n].lon]]

\* C13: an asset whose samples of the last 30 minutes are all within 0.1 km
\* of each other is reported idle=true by detect_idle, and an asset that
\* moved at least 5 km within that window, be it by a single update away
\* from its registration position, is reported idle=false.
C13_IdleVerdicts ==
    \A r \in Readers :
       (Answered(r, "detect_idle") /\ Recent(r) # <<>>) =>
          LET ret == frame[r].ret[1]
              recent == Recent(r)
          IN /\ (\A n, m \in DOMAIN recent :
                    DistanceTable[<<recent[n].lat, recent[n].lon,
                                    recent[m].lat, recent[m].lon>>]
                       <= IDLE_MOVEMENT_THRESHOLD_KM)
                   => ret.idle = TRUE
             /\ PathKm(RecentPath(r)) >= 50000 => ret.idle = FALSE

\* C14: when a registered asset has no samples in the lookback window of
\* threshold_minutes, detect_idle returns idle=true with the no-history
\* reason and an idle duration that is the time elapsed since the asset's
\* last_seen; when the asset id is not registered, it fails with the
\* asset-not-found error and returns no verdict.
C14_NoReportsFallback ==
    \A r \in Readers :
       /\ (Answered(r, "detect_idle") /\ Recent(r) = <<>>) =>
             LET ret == frame[r].ret[1]
             IN /\ Registered(frame[r].asset_id)
                /\ ret.idle = TRUE
                /\ "reason" \in DOMAIN ret
                /\ ret.reason = "no_history"
                /\ ret.minutes_idle
                      = now - Row(assets, frame[r].asset_id).last_seen
       /\ (frame[r].op = "detect_idle" /\ pc[r] = "done") =>
             /\ frame[r].result = "AssetNotFound"
             /\ ~Registered(frame[r].asset_id)
       /\ (frame[r].op = "detect_idle" /\ ~Registered(frame[r].asset_id)) =>
             pc[r] \in {"i_history", "i_asset", "done"}

\* the samples of r's asset that lie in the window r's call read
Used(r) ==
    SelectSeq(locations, LAMBDA p : /\ p.asset_id = frame[r].asset_id
                                    /\ p.timestamp >= frame[r].since)

UsedTimes(r) == {Used(r)[n].timestamp : n \in DOMAIN Used(r)}

\* C15: the window span detect_idle reports is the elapsed time between the
\* timestamps of the first and the last sample it used, never the requested
\* lookback duration as such; with a single sample it is 0; and the reported
\* point count is the number of samples used.
C15_WindowSpanIsObserved ==
    \A r \in Readers :
       (Answered(r, "detect_idle") /\ Used(r) # <<>>) =>
          LET ret == frame[r].ret[1]
          IN /\ ret.points = Len(Used(r))
             /\ \A first, last \in UsedTimes(r) :
                   (\A ts \in UsedTimes(r) : first <= ts /\ ts <= last)
                      => ret.window_minutes = last - first
             /\ Len(Used(r)) = 1 => ret.window_minutes = 0

\* three samples spanning an hour, inserted out of time order, were reported
\* with a span of an hour, which is neither the 30 minutes asked for nor the
\* 90 minutes read
C15_Witness ==
    \E r \in Readers :
       /\ Answered(r, "detect_idle")
       /\ Len(Used(r)) = 3
       /\ Used(r)[1].timestamp > Used(r)[3].timestamp
       /\ frame[r].ret[1].points = 3
       /\ frame[r].ret[1].window_minutes = 2

\* the number of times x occurs in seq
Count(seq, x) == Cardinality({n \in DOMAIN seq : seq[n] = x})

\* C16: calc_trip_distance over the N samples of an asset in the window is
\* the sum of the N-1 distances between consecutive samples taken in time
\* order; it is 0 for N = 0 or N = 1, and the registration position is not
\* part of the path.
C16_TripIsSumOfConsecutive ==
    \A r \in Readers :
       Answered(r, "calc_trip_distance") =>
          LET history == frame[r].history
          IN /\ Len(history) = Len(Used(r))
             /\ \A n \in DOMAIN Used(r) :
                   Count(history, Used(r)[n]) = Count(Used(r), Used(r)[n])
             /\ \A n, m \in DOMAIN history :
                   n < m => history[n].timestamp <= history[m].timestamp
             /\ frame[r].ret[1] = PathKm(history)
             /\ Len(Used(r)) < 2 => frame[r].ret[1] = 0

\* of three stored samples the two of the window were summed to 0.0698 km,
\* the distance between them; the first lies away from the registration
\* position and that move is not in the sum
C16_Witness ==
    \E r \in Readers :
       /\ Answered(r, "calc_trip_distance")
       /\ Len(frame[r].history) = 2
       /\ Len(locations) = 3
       /\ frame[r].ret[1] = 698
       /\ hist[frame[r].asset_id].reg_lat # frame[r].history[1].lat


\* the timestamps of the samples of asset_id in insertion (rowid) order
SampleTimes(asset_id) ==
    LET samples == SelectSeq(locations, LAMBDA p : p.asset_id = asset_id)
    IN [n \in DOMAIN samples |-> samples[n].timestamp]

\* C17: for each asset the timestamps of its samples are non-decreasing in
\* insertion order in every execution, overlapping update_location calls
\* included, and the last-seen time an update commits is never earlier than
\* the one the asset row held.
C17_TimestampsInInsertionOrder ==
    [][/\ \A a \in AssetIds :
            \A i, j \in DOMAIN SampleTimes(a)' :
               i < j => SampleTimes(a)'[i] <= SampleTimes(a)'[j]
       /\ \A t \in Threads :
            Commits(t) =>
               Row(assets', frame[t].asset_id).last_seen
                  >= Row(assets, frame[t].asset_id).last_seen]_vars


\* thread t is inside a call
Started(t) == pc[t] # "idle"

\* thread t waits for the lock that thread u holds
WaitsFor(t, u) ==
    /\ pc[t] \in {"r_lock", "g_lock", "u_lock", "e_lock"}
    /\ lock = u /\ u # t

\* C18: no operation blocks indefinitely.  In every reachable state in which
\* some call has started, some started call can take a step (no deadlock);
\* and under fair scheduling of the threads and of the lock, every started
\* call eventually returns, normally or with its error.
C18_EveryCallReturns ==
    /\ []((\E t \in Threads : Started(t)) =>
             \E t \in Threads : ENABLED (Proceed(t) \/ Acquire(t)))
    /\ \A t \in Threads : Started(t) ~> ~Started(t)

\* an update_location that has to record an event waits for the lock while
\* another call, with a committed sample of its own, holds it to record one
C18_Witness ==
    \E t, u \in Threads :
       /\ pc[t] = "e_lock" /\ WaitsFor(t, u)
       /\ pc[u] = "e_write"


\* the samples of asset_id in insertion order
SamplesOf(table, asset_id) == SelectSeq(table, LAMBDA p : p.asset_id = asset_id)

\* some update_location call commits a sample of asset_id in this step
CommitsOn(asset_id) ==
    \E t \in Threads : Commits(t) /\ frame[t].asset_id = asset_id

\* the fields of an asset row that update_location does not write
Identity(row) ==
    <<row.id, row.name, row.type, row.status, row.metadata, row.created_at>>

\* C19: once registered, an asset is never deleted and its stored state is
\* mutated only by accepted location updates: a committing update_location on
\* asset A sets A's position, speed, heading and last-seen to those of its
\* sample, leaves A's id, name, type, status, metadata and creation time as
\* they were, and leaves every other asset's row and samples unchanged; and no
\* other step alters the stored position of an already registered asset.
C19_OnlyUpdatesMoveAssets ==
    [][\A a \in AssetIds :
          Registered(a) =>
             /\ Registered(a)'
             /\ IF CommitsOn(a)
                THEN LET point == LastSample(a)' IN
                       /\ Identity(Row(assets', a)) = Identity(Row(assets, a))
                       /\ Row(assets', a).location_lat = point.lat
                       /\ Row(assets', a).location_lon = point.lon
                       /\ Row(assets', a).speed_kmh = point.speed_kmh
                       /\ Row(assets', a).heading_deg = point.heading_deg
                       /\ Row(assets', a).last_seen = point.timestamp
                ELSE /\ Row(assets', a).location_lat = Row(assets, a).location_lat
                     /\ Row(assets', a).location_lon = Row(assets, a).location_lon
                     /\ \/ SamplesOf(locations', a) = SamplesOf(locations, a)
                        \/ ~ \E b \in AssetIds : CommitsOn(b)]_vars


\* the event e carries the asset id and the position of the sample p
CarriesSample(e, p) ==
    e.asset_id = p.asset_id /\ e.lat = p.lat /\ e.lon = p.lon

\* C20: geofence events are produced only as a side effect of an accepted
\* location update and are never mutated: the event log changes only by an
\* update_location call appending one event, past its validation and with its
\* own sample already committed to the history, and the event carries the
\* asset id and the new position of that sample; register_asset,
\* add_geofence and failing updates leave the log unchanged.
C20_EventsOnlyFromUpdates ==
    [][/\ geofence_events' # geofence_events =>
            \E t \in Threads :
               /\ pc[t] = "e_write" /\ Moves(t)
               /\ frame[t].op = "update_location"
               /\ ValidLat(frame[t].lat) /\ ValidLon(frame[t].lon)
               /\ Len(geofence_events') = Len(geofence_events) + 1
               /\ SubSeq(geofence_events', 1, Len(geofence_events))
                     = geofence_events
               /\ frame[t].sample \in DOMAIN locations
               /\ CarriesSample(geofence_events'[Len(geofence_events')],
                                locations[frame[t].sample])
       /\ \A t \in Threads :
            (Moves(t) /\ \/ frame[t].op \in {"register_asset", "add_geofence"}
                         \/ frame'[t].op \in {"register_asset", "add_geofence"}
                         \/ pc[t] = "done" \/ pc'[t] = "done")
               => geofence_events' = geofence_events]_vars

\* a call that is still running has recorded an event while a later sample,
\* of another call and at another position, is already in the history; the
\* event carries the position of the call's own sample
C20_Witness ==
    \E t \in Threads :
       /\ pc[t] = "u_loop"
       /\ Len(frame[t].emitted) = 1
       /\ Len(locations) = 2
       /\ frame[t].sample = 1
       /\ locations[2].lat # locations[1].lat
       /\ CarriesSample(geofence_events[frame[t].emitted[1]], locations[1])
       /\ ~CarriesSample(geofence_events[frame[t].emitted[1]], locations[2])


\* the call of r to calc_distance has ended, with a value or an error
Computed(r) ==
    frame[r].op = "calc_distance" /\ pc[r] \in {"q_return", "done"}

\* C21: calc_distance is symmetric and zero on identical points: for all
\* points a and b, calc_distance(a, b) returns a value, the value that
\* calc_distance(b, a) returns, and the value is 0 when a = b.
C21_SymmetricAndZero ==
    \A r \in Readers :
       Computed(r) =>
          /\ pc[r] = "q_return"
          /\ <<frame[r].lat2, frame[r].lon2, frame[r].lat1, frame[r].lon1>>
                \notin MathDomainErrors
          /\ frame[r].ret[1] = calc_distance(frame[r].lat2, frame[r].lon2,
                                             frame[r].lat1, frame[r].lon1)
          /\ (frame[r].lat1 = frame[r].lat2 /\ frame[r].lon1 = frame[r].lon2)
                => frame[r].ret[1] = 0


\* the event types enter and exit take turns
Alternates(types) ==
    \A n \in 1..(Len(types) - 1) : types[n] # types[n + 1]

\* C22: the event log agrees with the current inside/outside status.  With
\* the geofences fixed and the asset registered once, overlapping
\* update_location calls on one asset included: whenever no update of asset A
\* is in progress and the pair of A and an active zone Z has an event, the
\* most recent event of the pair is an enter exactly when check_geofence(A, Z)
\* reports inside; and the events of the pair alternate between enter and exit.
C22_LogAgreesWithStatus ==
    \A a \in AssetIds :
       (Registered(a) /\ ~InFlight(a)) =>
          \A i \in DOMAIN geofences :
             LET types == EventsOf(a, geofences[i].id) IN
               (geofences[i].active /\ types # <<>>) =>
                  /\ (types[Len(types)] = "enter")
                        <=> check_geofence(a, geofences[i].id).inside
                  /\ Alternates(types)

====
